---------------------------- MODULE Spec2Model ----------------------------
(***************************************************************************)
(* Model of the blog-summariser service                                    *)
(* (src/src/app/api/summarise/route.ts): the extractive summariser         *)
(* summarizeText (Spec: one call, SpecCalls: several interleaved calls),   *)
(* the scraper scrapeBlogContent and the request handler POST (SpecPost),  *)
(* and of the page that calls the service (SpecHome): Home of              *)
(* src/src/app/page.tsx with the summary panel of ThreeScene.tsx.          *)
(*                                                                         *)
(* A JavaScript string is a sequence of one-character strings.  A value of *)
(* the frequency table or a score is a JavaScript value: a record with its *)
(* typeof tag `t`, its number `n` and its text `s`.                        *)
(***************************************************************************)
EXTENDS Integers, Sequences, FiniteSets, TLC

(* ------------------------------ bounds --------------------------------- *)

\* A document is the concatenation of at most MaxFrags fragments.
MaxFrags == 3

\* topN ranges over 0..MaxTopN.
MaxTopN == 3

(* ---------------------------- characters -------------------------------- *)

NL == "\n"

\* The character class without the newline.
TerminatorsWithoutNewline == {".", "!", "?"}

\* [.!?\n] of the sentence pattern.
Terminators == {".", "!", "?", NL}

\* \s of the token pattern and of String.prototype.trim.
Whitespace == {" ", NL, "\t"}

\* a-z
LowerLetters ==
    {"a", "b", "c", "d", "e", "f", "g", "h", "i", "j", "k", "l",
     "m", "n", "o", "p", "q", "r", "s", "t", "u", "v", "w", "x",
     "y", "z"}

\* A-Z of the letters the model's documents use.
UpperLetters == {"A", "B", "C", "D"}

ToLowerCaseChar(c) ==
    CASE c = "A" -> "a"
      [] c = "B" -> "b"
      [] c = "C" -> "c"
      [] c = "D" -> "d"
      [] OTHER   -> c

\* text.toLowerCase()
ToLowerCase(text) == [i \in DOMAIN text |-> ToLowerCaseChar(text[i])]

\* .replace(/[^a-zA-Z\s]/g, ''): every other character is deleted.
StripNonLetters(text) ==
    SelectSeq(text, LAMBDA c : c \in LowerLetters \cup UpperLetters \cup Whitespace)

\* The last index k >= i - 1 with text[i..k] all in S.
RunEnd(text, i, S) ==
    LET stops == {k \in i .. Len(text) : text[k] \notin S}
    IN  IF stops = {} THEN (IF i > Len(text) THEN i - 1 ELSE Len(text))
        ELSE (CHOOSE k \in stops : \A m \in stops : k <= m) - 1

\* The places where the maximal runs of white space start, in order.
SeparatorStarts(text) ==
    LET S == {k \in DOMAIN text :
                 text[k] \in Whitespace /\ (k = 1 \/ text[k - 1] \notin Whitespace)}
    IN  [j \in 1 .. Cardinality(S) |->
            CHOOSE k \in S : Cardinality({m \in S : m < k}) = j - 1]

\* .split(/\s+/): the pieces between the maximal whitespace runs; a leading
\* or trailing run leaves an empty piece, and "" splits into [""].
SplitWhitespace(text) ==
    LET starts == SeparatorStarts(text)
        n == Len(starts)
    IN  [j \in 1 .. n + 1 |->
            SubSeq(text,
                   IF j = 1 THEN 1
                   ELSE RunEnd(text, starts[j - 1], Whitespace) + 1,
                   IF j = n + 1 THEN Len(text) ELSE starts[j] - 1)]

\* The words of the stopword package's English list that the model's
\* documents can spell.
StopWords == {<<"a">>, <<"a", "n">>, <<"a", "s">>, <<"a", "t">>,
              <<"o", "n">>, <<"o", "r">>, <<"t", "o">>,
              <<"b", "u", "t">>, <<"c", "a", "n">>,
              <<"a", "r", "e">>, <<"t", "o", "o">>, <<"a", "n", "d">>,
              <<"b", "o", "t", "h">>, <<"t", "h", "a", "t">>}

\* removeStopwords(tokens): keeps the tokens that are not in the list; the
\* empty string is not in the list.
removeStopwords(tokens) == SelectSeq(tokens, LAMBDA w : w \notin StopWords)

\* removeStopwords(x.toLowerCase().replace(/[^a-zA-Z\s]/g, '').split(/\s+/))
Tokens(text) ==
    removeStopwords(SplitWhitespace(StripNonLetters(ToLowerCase(text))))

\* String.prototype.trim
Trim(text) ==
    LET first == RunEnd(text, 1, Whitespace) + 1
        RECURSIVE LastNonWs(_)
        LastNonWs(k) == IF k >= 1 /\ text[k] \in Whitespace
                        THEN LastNonWs(k - 1) ELSE k
    IN  IF first > Len(text) THEN <<>> ELSE SubSeq(text, first, LastNonWs(Len(text)))

(* --------------------------- segmentation ------------------------------ *)

\* text.match(/[^.!?\n]+[.!?\n]+/g): scanning from i, a match is a maximal
\* run of non-terminators followed by a maximal run of terminators; leading
\* terminators and a run that reaches the end of the text match nothing.
RECURSIVE MatchAll(_, _)
MatchAll(text, i) ==
    IF i > Len(text) THEN <<>>
    ELSE IF text[i] \in Terminators THEN MatchAll(text, i + 1)
    ELSE LET chars == {text[k] : k \in DOMAIN text}
             e == RunEnd(text, i, chars \ Terminators)
         IN  IF e = Len(text) THEN <<>>
             ELSE LET f == RunEnd(text, e + 1, Terminators)
                  IN  <<SubSeq(text, i, f)>> \o MatchAll(text, f + 1)

\* Segment without the fallback to the whole text.
SegmentNoFallback(text) == MatchAll(text, 1)

\* Segment as a split does it: what follows the last match is a sentence too.
SegmentWithTail(text) ==
    LET m == MatchAll(text, 1)
        ends == {k \in DOMAIN text : text[k] \in Terminators}
        last == CHOOSE k \in ends : \A j \in ends : j <= k
    IN  IF m = <<>> THEN <<text>>
        ELSE IF last < Len(text) THEN Append(m, SubSeq(text, last + 1, Len(text)))
        ELSE m

\* text.match(...) || [text]: match yields null when nothing matches.
Segment(text) ==
    LET m == MatchAll(text, 1) IN IF m = <<>> THEN <<text>> ELSE m

(* -------------------------- JavaScript values -------------------------- *)

Num(n) == [t |-> "number", n |-> n, s |-> ""]

Str(s) == [t |-> "string", n |-> 0, s |-> s]

Undefined == [t |-> "undefined", n |-> 0, s |-> ""]

\* Object.prototype.constructor, which every object literal inherits.
ObjectFunction == [t |-> "function", n |-> 0,
                   s |-> "function Object() { [native code] }"]

\* The property names of Object.prototype that a token (lower-case letters
\* only) can equal: the others hold a capital or an underscore.
Constructor == <<"c", "o", "n", "s", "t", "r", "u", "c", "t", "o", "r">>

InheritedKeys == {Constructor}

\* ToBoolean
Truthy(v) ==
    CASE v.t = "number"    -> v.n # 0
      [] v.t = "string"    -> v.s # ""
      [] v.t = "function"  -> TRUE
      [] v.t = "undefined" -> FALSE

\* The lookup without its || 0.
OrZeroLeftOut(v) == v

\* v || 0
OrZero(v) == IF Truthy(v) THEN v ELSE Num(0)

\* ToString of the operand of a string concatenation.
JsToString(v) == IF v.t = "number" THEN ToString(v.n) ELSE v.s

\* x + y: the sum of two numbers, else the concatenation of the operands'
\* texts.
Plus(x, y) ==
    IF x.t = "number" /\ y.t = "number"
    THEN Num(x.n + y.n)
    ELSE Str(JsToString(x) \o JsToString(y))

\* ToNumber(v) is NaN: a string here holds the text of a function, which is
\* no numeric literal.
IsNaN(v) == v.t # "number"

(* -------------------------- frequency table ---------------------------- *)

\* freq[w]: the own property, else the property inherited from
\* Object.prototype, else undefined.
Get(freq, w) ==
    IF w \in DOMAIN freq THEN freq[w]
    ELSE IF w \in InheritedKeys THEN ObjectFunction
    ELSE Undefined

\* freq[w] = (freq[w] || 0) + 1
Increment(freq, w) ==
    [k \in DOMAIN freq \cup {w} |->
        IF k = w THEN Plus(OrZero(Get(freq, w)), Num(1)) ELSE freq[k]]

\* allWords.forEach((w) => (freq[w] = (freq[w] || 0) + 1)) from word i on.
RECURSIVE CountWords(_, _, _)
CountWords(words, i, freq) ==
    IF i > Len(words) THEN freq
    ELSE CountWords(words, i + 1, Increment(freq, words[i]))

\* The empty object literal {}.
EmptyObject == [k \in {} |-> Undefined]

\* Steps 2 and 3 of summarizeText.
BuildFrequencies(text) == CountWords(Tokens(text), 1, EmptyObject)

(* ------------------------------ scoring -------------------------------- *)

\* words.reduce((sum, w) => sum + (freq[w] || 0), 0) from word i on.
RECURSIVE Reduce(_, _, _, _)
Reduce(words, i, freq, sum) ==
    IF i > Len(words) THEN sum
    ELSE Reduce(words, i + 1, freq, Plus(sum, OrZero(Get(freq, words[i]))))

SentenceScore(s, freq) == Reduce(Tokens(s), 1, freq, Num(0))

\* A read that creates the property it does not find, with the value 0.
AfterGetCreating(freq, w) ==
    IF w \in DOMAIN freq THEN freq
    ELSE [k \in DOMAIN freq \cup {w} |-> IF k = w THEN Num(0) ELSE freq[k]]

\* The object after the read freq[w]: reading a property of an object
\* literal, own, inherited or missing, leaves the object as it is.
AfterGet(freq, w) == freq

\* The object after the reads of words.reduce(...) from word i on.
RECURSIVE AfterReduce(_, _, _)
AfterReduce(words, i, freq) ==
    IF i > Len(words) THEN freq
    ELSE AfterReduce(words, i + 1, AfterGet(freq, words[i]))

\* The object after sentences.map(...) from sentence i on.
RECURSIVE AfterScoring(_, _, _)
AfterScoring(sentences, i, freq) ==
    IF i > Len(sentences) THEN freq
    ELSE AfterScoring(sentences, i + 1,
                      AfterReduce(Tokens(sentences[i]), 1, freq))

\* ScoreSentences that keeps the lower-cased sentence.
ScoreSentencesLowerCased(sentences, freq) ==
    [i \in DOMAIN sentences |->
        [sentence |-> Trim(ToLowerCase(sentences[i])),
         score    |-> SentenceScore(sentences[i], freq),
         pos      |-> i]]

\* sentences.map((s) => ({ sentence: s.trim(), score })).  `pos` is the
\* identity of the object: the index of its sentence in the document.
ScoreSentences(sentences, freq) ==
    [i \in DOMAIN sentences |->
        [sentence |-> Trim(sentences[i]),
         score    |-> SentenceScore(sentences[i], freq),
         pos      |-> i]]

(* ------------------------------ sorting -------------------------------- *)

\* The comparator written as a.score - b.score: ascending scores.
CompareAscending(a, b) ==
    IF IsNaN(a.score) \/ IsNaN(b.score) THEN 0 ELSE a.score.n - b.score.n

\* The comparator (a, b) => b.score - a.score as Array.prototype.sort reads
\* it: a NaN result counts as +0.
Compare(a, b) ==
    IF IsNaN(a.score) \/ IsNaN(b.score) THEN 0 ELSE b.score.n - a.score.n

\* arr with its first k elements reversed.
ReversePrefix(arr, k) ==
    [i \in DOMAIN arr |-> IF i <= k THEN arr[k + 1 - i] ELSE arr[i]]

\* The length of the run that starts the array, grown from idx on: a run
\* is strictly descending (each element sorts before the one on its left)
\* or it is not descending.
RECURSIVE RunLength(_, _, _)
RunLength(arr, idx, isDescending) ==
    IF idx > Len(arr) THEN idx - 1
    ELSE LET order == Compare(arr[idx], arr[idx - 1])
         IN  IF (isDescending /\ order >= 0) \/ (~isDescending /\ order < 0)
             THEN idx - 1
             ELSE RunLength(arr, idx + 1, isDescending)

\* InsertionPoint that puts pivot before the elements it compares equal to.
RECURSIVE InsertionPointBeforeEqual(_, _, _, _)
InsertionPointBeforeEqual(arr, pivot, left, right) ==
    IF left >= right THEN left
    ELSE LET mid == left + ((right - left) \div 2)
         IN  IF Compare(pivot, arr[mid + 1]) <= 0
             THEN InsertionPointBeforeEqual(arr, pivot, left, mid)
             ELSE InsertionPointBeforeEqual(arr, pivot, mid + 1, right)

\* The place of pivot among arr[left + 1 .. right]: the binary search of
\* the insertion, which puts pivot after the elements it does not sort
\* before.
RECURSIVE InsertionPoint(_, _, _, _)
InsertionPoint(arr, pivot, left, right) ==
    IF left >= right THEN left
    ELSE LET mid == left + ((right - left) \div 2)
         IN  IF Compare(pivot, arr[mid + 1]) < 0
             THEN InsertionPoint(arr, pivot, left, mid)
             ELSE InsertionPoint(arr, pivot, mid + 1, right)

\* arr[start] moved to place k + 1, the elements between shifted right.
MoveTo(arr, start, k) ==
    [i \in DOMAIN arr |->
        IF i <= k \/ i > start THEN arr[i]
        ELSE IF i = k + 1 THEN arr[start]
        ELSE arr[i - 1]]

\* Binary insertion of arr[start], arr[start + 1], ... into the sorted
\* prefix before them.
RECURSIVE BinaryInsertionSort(_, _)
BinaryInsertionSort(arr, start) ==
    IF start > Len(arr) THEN arr
    ELSE BinaryInsertionSort(
             MoveTo(arr, start, InsertionPoint(arr, arr[start], 0, start - 1)),
             start + 1)

\* scored.sort((a, b) => b.score - a.score) as the engine of Node sorts an
\* array of fewer than 64 elements: the run that starts the array is
\* found (and reversed when descending), the rest is inserted into it.
\* With a consistent comparator this is the stable sort by descending score.
Sort(arr) ==
    IF Len(arr) < 2 THEN arr
    ELSE LET isDescending == Compare(arr[2], arr[1]) < 0
             run == RunLength(arr, 3, isDescending)
             made == IF isDescending THEN ReversePrefix(arr, run) ELSE arr
         IN  BinaryInsertionSort(made, run + 1)

(* ------------------------- selecting and joining ----------------------- *)

\* Slice with its end index taken as inclusive.
SliceInclusive(arr, start, end) ==
    LET len  == Len(arr)
        clip(r) == IF r < 0 THEN (IF len + r > 0 THEN len + r ELSE 0)
                   ELSE (IF r < len THEN r ELSE len)
        k     == clip(start)
        final == clip(end + 1)
    IN  IF final > k THEN SubSeq(arr, k + 1, final) ELSE <<>>

\* Array.prototype.slice(start, end): a negative index counts from the end.
Slice(arr, start, end) ==
    LET len  == Len(arr)
        clip(r) == IF r < 0 THEN (IF len + r > 0 THEN len + r ELSE 0)
                   ELSE (IF r < len THEN r ELSE len)
        k     == clip(start)
        final == clip(end)
    IN  IF final > k THEN SubSeq(arr, k + 1, final) ELSE <<>>

\* Array.prototype.join(sep) of an array of strings.
RECURSIVE Join(_, _)
Join(arr, sep) ==
    IF Len(arr) = 0 THEN <<>>
    ELSE IF Len(arr) = 1 THEN arr[1]
    ELSE arr[1] \o sep \o Join(Tail(arr), sep)

\* summarizeText(text, topN) as one call, from its arguments to the string
\* it returns.
SummarizeText(text, topN) ==
    LET sentences == Segment(text)
        freq      == BuildFrequencies(text)
        scored    == Sort(ScoreSentences(sentences, freq))
        top       == [i \in DOMAIN Slice(scored, 0, topN) |-> scored[i].sentence]
    IN  Join(top, <<" ">>)

(* ------------------------------ the heap ------------------------------- *)

\* The heap maps the references 1, 2, ... of the objects created so far to
\* their properties.

\* An object literal evaluated once, when the module is loaded: every call
\* gets the same object, with whatever it holds by then.
NewObjectOnce(heap) ==
    [ref  |-> 1,
     heap |-> IF 1 \in DOMAIN heap THEN heap
              ELSE [k \in {1} |-> [w \in {} |-> Undefined]]]

\* const freq = {} inside summarizeText: each evaluation of the literal
\* creates a new empty object and yields the reference to it.
NewObject(heap) ==
    LET ref == Cardinality(DOMAIN heap) + 1
    IN  [ref  |-> ref,
         heap |-> [k \in DOMAIN heap \cup {ref} |->
                      IF k = ref THEN EmptyObject ELSE heap[k]]]

(* ----------------------------- the inputs ------------------------------ *)

\* The pieces the model's documents are made of: sentences, words and
\* single characters.
Fragments ==
    { <<"b", ".">>,
      <<" ", "b", " ", "B", ".">>,
      <<" ", "a", ".">>,
      Constructor \o <<".">>,
      <<" ">>, <<NL>>, <<"1">>, <<"b">>, <<".">> }

\* The concatenations of at most n fragments.
RECURSIVE Concatenations(_)
Concatenations(n) ==
    IF n = 0 THEN {<<>>}
    ELSE LET shorter == Concatenations(n - 1)
         IN  shorter \cup {d \o f : d \in shorter, f \in Fragments}

\* The document of Scenario A:
\* "Cats are great. Dogs are great too. Cats and dogs are both great pets
\* that people love."
ScenarioA ==
    << "C", "a", "t", "s", " ", "a", "r", "e", " ", "g", "r", "e",
       "a", "t", ".", " ", "D", "o", "g", "s", " ", "a", "r", "e",
       " ", "g", "r", "e", "a", "t", " ", "t", "o", "o", ".", " ",
       "C", "a", "t", "s", " ", "a", "n", "d", " ", "d", "o", "g",
       "s", " ", "a", "r", "e", " ", "b", "o", "t", "h", " ", "g",
       "r", "e", "a", "t", " ", "p", "e", "t", "s", " ", "t", "h",
       "a", "t", " ", "p", "e", "o", "p", "l", "e", " ", "l", "o",
       "v", "e", "." >>

\* Sentences made of stopwords: "at.", "An!" and " a?".
StopwordFragments ==
    { <<"a", "t", ".">>, <<"A", "n", "!">>, <<" ", "a", "?">> }

\* The documents of at most three such sentences.
StopwordDocuments ==
    LET F == StopwordFragments \cup {<<>>}
    IN  {x \o y \o z : x \in F, y \in F, z \in F}

Documents == Concatenations(MaxFrags) \cup {ScenarioA} \cup StopwordDocuments

TopNs == 0 .. MaxTopN

(* --------------------------- the state machine ------------------------- *)

\* One call of summarizeText, step by step.
VARIABLES
    text,       \* the document summarizeText is called with
    topN,       \* its second argument
    pc,         \* the step summarizeText is at
    sentences,  \* const sentences
    freq,       \* const freq
    scored,     \* const scored, which sort orders in place
    top,        \* const top
    result      \* the string returned

\* Calls of summarizeText that follow each other or overlap.
VARIABLES
    invocations,  \* the activation record of each caller's current call
    heap,         \* the objects the calls created
    returned      \* the calls that returned, in the order of their return

\* One request to the POST handler.
VARIABLES
    request,      \* the body of the request as req.json() finds it
    hpc,          \* the step the handler is at
    postText,     \* let text
    postUrl,      \* let url
    fetched,      \* the URLs scrapeBlogContent fetched
    page,         \* the paragraphs of the page fetched
    summarized,   \* the texts summarizeText was called with
    summary,      \* const summary
    translated,   \* the texts sent to the translation service
    reply,        \* the reply of the translation service
    urduSummary,  \* let urduSummary
    blogs,        \* the documents inserted into the blogs collection
    summaries,    \* the documents inserted into the summaries collection
    saveAttempt,  \* whether step 3 was run, and what it caught
    response      \* the response returned

\* The page: the state of Home and the runs of its handleSubmit.
VARIABLES
    loadingStage,     \* 0=idle, 1=sending, 2=translating, 3=complete
    homeSummary,      \* the state summary of Home
    homeUrduSummary,  \* the state urduSummary of Home
    homeError,        \* the state error of Home
    runs,             \* the runs of handleSubmit under way
    submitted,        \* the number of runs started
    ended,            \* the run that ended last, and the state it left
    pendingCloses,    \* the timers of handleCloseSummary that have not fired
    cleared           \* the clearSummaries event handled last, and the state it left

sumVars == <<text, topN, pc, sentences, freq, scored, top, result>>

callVars == <<invocations, heap, returned>>

postVars == <<request, hpc, postText, postUrl, fetched, page, summarized,
              summary, translated, reply, urduSummary, blogs, summaries,
              saveAttempt, response>>

homeVars == <<loadingStage, homeSummary, homeUrduSummary, homeError, runs,
              submitted, ended, pendingCloses, cleared>>

vars == <<sumVars, callVars, postVars, homeVars>>

\* The callers whose calls of summarizeText may overlap.
Callers == {"first", "second"}

\* A caller with no call under way.  `freq` is the reference of the call's
\* table (0: none yet); `overlapped` records that another call was under
\* way during this one.
Idle ==
    [pc |-> "idle", text |-> <<>>, topN |-> 0, sentences |-> <<>>,
     freq |-> 0, scored |-> <<>>, top |-> <<>>, overlapped |-> FALSE]

NoCalls ==
    /\ invocations = [c \in Callers |-> Idle]
    /\ heap = <<>>
    /\ returned = <<>>

\* No page fetched yet.
NoPage == [loaded |-> FALSE, paragraphs |-> <<>>]

\* Step 3 not reached.
NoSave == [made |-> FALSE, thrown |-> "none"]

\* No response yet.
NoResponse == [status |-> 0, body |-> EmptyObject]

NoRequest ==
    /\ request = [json |-> "none"]
    /\ hpc = "idle"
    /\ postText = <<>>
    /\ postUrl = <<>>
    /\ fetched = <<>>
    /\ page = NoPage
    /\ summarized = <<>>
    /\ summary = <<>>
    /\ translated = <<>>
    /\ reply = [outcome |-> "none"]
    /\ urduSummary = <<>>
    /\ blogs = <<>>
    /\ summaries = <<>>
    /\ saveAttempt = NoSave
    /\ response = NoResponse

\* The slots of the runs of handleSubmit that may be under way together.
RunIds == {1, 2}

\* A slot with no run under way.
NoRun ==
    [pc |-> "idle", payload |-> [k \in {} |-> <<>>],
     response |-> [kind |-> "none"], overlapped |-> FALSE]

\* Home as useState initialises it, nothing submitted, nothing closed.
NoHome ==
    /\ loadingStage = 0
    /\ homeSummary = Str("")
    /\ homeUrduSummary = Str("")
    /\ homeError = Str("")
    /\ runs = [r \in RunIds |-> NoRun]
    /\ submitted = 0
    /\ ended = [run |-> 0]
    /\ pendingCloses = 0
    /\ cleared = [handled |-> FALSE]

Init ==
    /\ text \in Documents
    /\ topN \in TopNs
    /\ pc = "split"
    /\ sentences = <<>>
    /\ freq = EmptyObject
    /\ scored = <<>>
    /\ top = <<>>
    /\ result = <<>>
    /\ NoCalls
    /\ NoRequest
    /\ NoHome

\* 1. Split into sentences
SplitSentences ==
    /\ pc = "split"
    /\ sentences' = Segment(text)
    /\ pc' = "count"
    /\ UNCHANGED <<text, topN, freq, scored, top, result>>
    /\ UNCHANGED <<callVars, postVars, homeVars>>

\* 2. Tokenize words, remove stopwords; 3. Count word frequencies
CountFrequencies ==
    /\ pc = "count"
    /\ freq' = BuildFrequencies(text)
    /\ pc' = "score"
    /\ UNCHANGED <<text, topN, sentences, scored, top, result>>
    /\ UNCHANGED <<callVars, postVars, homeVars>>

\* 4. Score each sentence
ScoreStep ==
    /\ pc = "score"
    /\ scored' = ScoreSentences(sentences, freq)
    /\ freq' = AfterScoring(sentences, 1, freq)
    /\ pc' = "select"
    /\ UNCHANGED <<text, topN, sentences, top, result>>
    /\ UNCHANGED <<callVars, postVars, homeVars>>

\* 5. Sort and select top N; 6. Clean and format
SelectTop ==
    /\ pc = "select"
    /\ scored' = Sort(scored)
    /\ top' = [i \in DOMAIN Slice(scored', 0, topN) |-> scored'[i].sentence]
    /\ result' = Join(top', <<" ">>)
    /\ pc' = "done"
    /\ UNCHANGED <<text, topN, sentences, freq>>
    /\ UNCHANGED <<callVars, postVars, homeVars>>

Next == SplitSentences \/ CountFrequencies \/ ScoreStep \/ SelectTop

Spec == Init /\ [][Next]_vars

(* ------------------- calls that follow or overlap ---------------------- *)

\* At most MaxCalls calls are made.
MaxCalls == 3

\* The documents of these calls: "b. c." and "c.".
CallDocuments ==
    { <<"b", ".", " ", "c", ".">>, <<"c", ".">> }

CallTopNs == {1, 2}

\* The single call of Spec is not made.
NoSingleCall ==
    /\ text = <<>>
    /\ topN = 0
    /\ pc = "idle"
    /\ sentences = <<>>
    /\ freq = EmptyObject
    /\ scored = <<>>
    /\ top = <<>>
    /\ result = <<>>

Active == {c \in Callers : invocations[c].pc # "idle"}

\* summarizeText(d, n) is called.
Invoke(c) ==
    /\ invocations[c].pc = "idle"
    /\ Len(returned) + Cardinality(Active) < MaxCalls
    /\ \E d \in CallDocuments, n \in CallTopNs :
           invocations' =
               [k \in Callers |->
                   IF k = c
                   THEN [Idle EXCEPT !.pc = "split", !.text = d, !.topN = n,
                                     !.overlapped = (Active # {})]
                   ELSE IF k \in Active
                        THEN [invocations[k] EXCEPT !.overlapped = TRUE]
                        ELSE invocations[k]]
    /\ UNCHANGED <<heap, returned, sumVars, postVars, homeVars>>

\* 1. Split into sentences
SplitCall(c) ==
    /\ invocations[c].pc = "split"
    /\ invocations' =
           [invocations EXCEPT ![c].sentences = Segment(invocations[c].text),
                               ![c].pc = "count"]
    /\ UNCHANGED <<heap, returned, sumVars, postVars, homeVars>>

\* 2. and 3.: const freq = {}, then forEach adds the words to that object.
CountCall(c) ==
    /\ invocations[c].pc = "count"
    /\ LET made == NewObject(heap)
       IN  /\ heap' = [made.heap EXCEPT ![made.ref] =
                          CountWords(Tokens(invocations[c].text), 1,
                                     made.heap[made.ref])]
           /\ invocations' = [invocations EXCEPT ![c].freq = made.ref,
                                                 ![c].pc = "score"]
    /\ UNCHANGED <<returned, sumVars, postVars, homeVars>>

\* 4. Score each sentence, reading the table freq refers to.
ScoreCall(c) ==
    /\ invocations[c].pc = "score"
    /\ invocations' =
           [invocations EXCEPT
               ![c].scored = ScoreSentences(invocations[c].sentences,
                                            heap[invocations[c].freq]),
               ![c].pc = "select"]
    /\ UNCHANGED <<heap, returned, sumVars, postVars, homeVars>>

\* 5. and 6.: sort, select, join and return.
ReturnCall(c) ==
    /\ invocations[c].pc = "select"
    /\ LET sorted == Sort(invocations[c].scored)
           chosen == [i \in DOMAIN Slice(sorted, 0, invocations[c].topN) |->
                         sorted[i].sentence]
       IN  returned' = Append(returned,
                              [text       |-> invocations[c].text,
                               topN       |-> invocations[c].topN,
                               result     |-> Join(chosen, <<" ">>),
                               overlapped |-> invocations[c].overlapped])
    /\ invocations' = [invocations EXCEPT ![c] = Idle]
    /\ UNCHANGED <<heap, sumVars, postVars, homeVars>>

InitCalls == NoSingleCall /\ NoCalls /\ NoRequest /\ NoHome

NextCalls ==
    \E c \in Callers :
        \/ Invoke(c)
        \/ SplitCall(c)
        \/ CountCall(c)
        \/ ScoreCall(c)
        \/ ReturnCall(c)

SpecCalls == InitCalls /\ [][NextCalls]_vars

(* --------------------------- the POST handler -------------------------- *)

\* A page holds at most MaxParagraphs paragraphs.
MaxParagraphs == 2

\* The 100 of body.text.trim().length >= 100 and of text.length < 100.
MinTextLength == 100

\* The 50 of summary.trim().length < 50.
MinSummaryLength == 50

\* The 40 of t.trim().length > 40.
ParagraphLength == 40

\* The default of topN, which the handler's call leaves in place.
DefaultTopN == 3

\* A text of n characters: words of the letter b, with a full stop at
\* every place that `every` divides and a space at the places 5, 15, 25, ...
\* that hold no full stop.
Filler(n, every) ==
    [i \in 1 .. n |-> IF i % every = 0 THEN "."
                      ELSE IF i % 10 = 5 THEN " " ELSE "b"]

\* The values of a property of a parsed JSON body: a string, a value that
\* is no string, or no value.
StringValue(s) == [type |-> "string", chars |-> s]

NumberValue == [type |-> "number", chars |-> <<>>]

Absent == [type |-> "undefined", chars |-> <<>>]

\* body.text: no string, the empty string, texts of 99 and 100 characters,
\* the same within white space, and a text of 100 characters whose
\* sentences are short.
BodyTexts ==
    { Absent, NumberValue, StringValue(<<>>),
      StringValue(Filler(MinTextLength - 1, 25)),
      StringValue(Filler(MinTextLength, 25)),
      StringValue(<<" ">> \o Filler(MinTextLength - 1, 25) \o <<" ">>),
      StringValue(<<" ">> \o Filler(MinTextLength, 25) \o <<NL>>),
      StringValue(Filler(MinTextLength, 10)) }

\* body.url: no string, a blank string, a URL within white space.
BodyUrls ==
    { Absent, NumberValue, StringValue(<<" ", " ">>),
      StringValue(<<" ", "u", " ">>) }

\* The request bodies: one that is no JSON, the JSON null, and the objects
\* with the properties above.
Requests ==
    {[json |-> j, text |-> Absent, url |-> Absent] : j \in {"malformed", "null"}}
        \cup {[json |-> "object", text |-> t, url |-> u] :
                 t \in BodyTexts, u \in BodyUrls}

\* The texts of the <p> elements of a page: of 40 and of 41 characters, the
\* same within white space, of 60 characters, and empty.
Paragraphs ==
    { <<>>,
      Filler(ParagraphLength, 25),
      Filler(ParagraphLength + 1, 25),
      <<" ">> \o Filler(ParagraphLength, 25) \o <<" ">>,
      <<" ">> \o Filler(ParagraphLength + 1, 25),
      Filler(ParagraphLength + 20, 25) }

\* The sequences of at most n paragraphs.
RECURSIVE PagesOf(_)
PagesOf(n) ==
    IF n = 0 THEN {<<>>}
    ELSE LET shorter == PagesOf(n - 1)
         IN  shorter \cup {Append(pg, t) : pg \in shorter, t \in Paragraphs}

Pages == PagesOf(MaxParagraphs)

\* What the translation service does: the fetch throws, the reply is no
\* JSON, or it is JSON with the status and the translatedText given.
TranslationReplies ==
    {[outcome |-> o, ok |-> FALSE, translatedText |-> Absent] :
         o \in {"throws", "text"}}
        \cup {[outcome |-> "json", ok |-> k, translatedText |-> t] :
                 k \in BOOLEAN,
                 t \in {Absent, NumberValue, StringValue(<<>>),
                        StringValue(<<"u">>)}}

\* The step at which saving throws, if any.
SaveFailures == {"connect", "blogs", "summaries", "close", "none"}

\* The test of body.text that takes every string that is not blank.
UsableTextNotBlank(v) == v.type = "string" /\ Len(Trim(v.chars)) > 0

\* typeof body.text === 'string' && body.text.trim().length >= 100
UsableText(v) == v.type = "string" /\ Len(Trim(v.chars)) >= MinTextLength

\* typeof body.url === 'string' && body.url.trim().length > 0
UsableUrl(v) == v.type = "string" /\ Len(Trim(v.chars)) > 0

\* The chain with the URL tested first.
BranchUrlFirst(body) ==
    IF UsableUrl(body.url) THEN "url"
    ELSE IF UsableText(body.text) THEN "text"
    ELSE "none"

\* if (text is usable) ... else if (url is usable) ... else ...: the branch
\* the handler takes for a body.
Branch(body) ==
    IF UsableText(body.text) THEN "text"
    ELSE IF UsableUrl(body.url) THEN "url"
    ELSE "none"

\* The filter without the trim.
KeepParagraphUntrimmed(t) == Len(t) > ParagraphLength

\* (t) => t.trim().length > 40
KeepParagraph(t) == Len(Trim(t)) > ParagraphLength

\* scrapeBlogContent on a page with these paragraphs: filter, join(' ').
ScrapeBlogContent(paragraphs) ==
    Join(SelectSeq(paragraphs, KeepParagraph), <<" ">>)

\* The test of the scraped text that only asks for some text.
EnoughContentNotEmpty(t) == t # <<>>

\* The negation of !text || text.length < 100.
EnoughContent(t) == t # <<>> /\ Len(t) >= MinTextLength

\* The test of the summary that only asks for some text.
UsableSummaryNotEmpty(s) == s # <<>>

\* The negation of !summary || summary.trim().length < 50.
UsableSummary(s) == s # <<>> /\ Len(Trim(s)) >= MinSummaryLength

\* NextResponse.json({ error: message }, { status })
ErrorResponse(message, status) ==
    [status |-> status, body |-> [error |-> message]]

InsufficientInput ==
    ErrorResponse("Please provide sufficient blog/article text (at least 100 characters) or a valid URL.", 400)

NotEnoughContent ==
    ErrorResponse("Could not extract enough content from the provided URL.", 400)

\* The summary rejected as an input error.
NoSummaryAsBadInput == ErrorResponse("Could not generate summary", 400)

NoSummary == ErrorResponse("Could not generate summary", 500)

\* The reply rejected with the summary attached.
TranslationUnavailableWithSummary ==
    [status |-> 502,
     body   |-> [error   |-> "Translation service unavailable or returned invalid response. Please try again later.",
                 summary |-> summary]]

TranslationUnavailable ==
    ErrorResponse("Translation service unavailable or returned invalid response. Please try again later.", 502)

TranslationFailed == ErrorResponse("Failed to translate to Urdu: fetch failed", 500)

\* The outer catch: { error: error.message }, status 500.
InternalError(message) == ErrorResponse(message, 500)

\* The response when what the save step caught is reported to the caller.
SuccessUnlessSaveThrew ==
    IF saveAttempt.thrown = "none"
    THEN [status |-> 200,
          body   |-> [summary        |-> summary,
                      urduSummary    |-> urduSummary,
                      originalLength |-> Len(postText),
                      summaryLength  |-> Len(summary)]]
    ELSE InternalError("MongoDB save error")

\* NextResponse.json({ summary, urduSummary, originalLength, summaryLength })
Success ==
    [status |-> 200,
     body   |-> [summary        |-> summary,
                 urduSummary    |-> urduSummary,
                 originalLength |-> Len(postText),
                 summaryLength  |-> Len(summary)]]

\* The single call of Spec is not made, no other calls either; a request
\* has arrived.
InitPost ==
    /\ NoSingleCall
    /\ NoCalls
    /\ NoHome
    /\ request \in Requests
    /\ hpc = "receive"
    /\ postText = <<>>
    /\ postUrl = <<>>
    /\ fetched = <<>>
    /\ page = NoPage
    /\ summarized = <<>>
    /\ summary = <<>>
    /\ translated = <<>>
    /\ reply = [outcome |-> "none"]
    /\ urduSummary = <<>>
    /\ blogs = <<>>
    /\ summaries = <<>>
    /\ saveAttempt = NoSave
    /\ response = NoResponse

\* await req.json() throws on a body that is no JSON, body.text throws on
\* null: the outer catch answers.
ReadFails ==
    /\ hpc = "receive"
    /\ request.json # "object"
    /\ response' = InternalError(IF request.json = "null"
                                 THEN "Cannot read properties of null (reading 'text')"
                                 ELSE "Unexpected end of JSON input")
    /\ hpc' = "responded"
    /\ UNCHANGED <<request, postText, postUrl, fetched, page, summarized,
                   summary, translated, reply, urduSummary, blogs, summaries>>
    /\ UNCHANGED <<saveAttempt, sumVars, callVars, homeVars>>

\* text = body.text.trim()
TakeText ==
    /\ hpc = "receive"
    /\ request.json = "object"
    /\ Branch(request) = "text"
    /\ postText' = Trim(request.text.chars)
    /\ hpc' = "summarize"
    /\ UNCHANGED <<request, postUrl, fetched, page, summarized, summary,
                   translated, reply, urduSummary, blogs, summaries, response>>
    /\ UNCHANGED <<saveAttempt, sumVars, callVars, homeVars>>

\* url = body.url.trim()
TakeUrl ==
    /\ hpc = "receive"
    /\ request.json = "object"
    /\ Branch(request) = "url"
    /\ postUrl' = Trim(request.url.chars)
    /\ hpc' = "scrape"
    /\ UNCHANGED <<request, postText, fetched, page, summarized, summary,
                   translated, reply, urduSummary, blogs, summaries, response>>
    /\ UNCHANGED <<saveAttempt, sumVars, callVars, homeVars>>

\* Neither a text nor a URL.
RejectInput ==
    /\ hpc = "receive"
    /\ request.json = "object"
    /\ Branch(request) = "none"
    /\ response' = InsufficientInput
    /\ hpc' = "responded"
    /\ UNCHANGED <<request, postText, postUrl, fetched, page, summarized,
                   summary, translated, reply, urduSummary, blogs, summaries>>
    /\ UNCHANGED <<saveAttempt, sumVars, callVars, homeVars>>

\* scrapeBlogContent throws (the fetch or the parse failed): the outer
\* catch answers.
ScrapeFails ==
    /\ hpc = "scrape"
    /\ fetched' = Append(fetched, postUrl)
    /\ response' = InternalError("Failed to scrape blog: TypeError: fetch failed")
    /\ hpc' = "responded"
    /\ UNCHANGED <<request, postText, postUrl, page, summarized, summary,
                   translated, reply, urduSummary, blogs, summaries>>
    /\ UNCHANGED <<saveAttempt, sumVars, callVars, homeVars>>

\* text = await scrapeBlogContent(url), then the test of its length.
Scrape ==
    /\ hpc = "scrape"
    /\ fetched' = Append(fetched, postUrl)
    /\ \E pg \in Pages :
           /\ page' = [loaded |-> TRUE, paragraphs |-> pg]
           /\ postText' = ScrapeBlogContent(pg)
    /\ IF EnoughContent(postText')
       THEN hpc' = "summarize" /\ UNCHANGED response
       ELSE hpc' = "responded" /\ response' = NotEnoughContent
    /\ UNCHANGED <<request, postUrl, summarized, summary, translated, reply,
                   urduSummary, blogs, summaries>>
    /\ UNCHANGED <<saveAttempt, sumVars, callVars, homeVars>>

\* const summary = summarizeText(text), then the test of its length.
Summarize ==
    /\ hpc = "summarize"
    /\ summarized' = Append(summarized, postText)
    /\ summary' = SummarizeText(postText, DefaultTopN)
    /\ IF UsableSummary(summary')
       THEN hpc' = "translate" /\ UNCHANGED response
       ELSE hpc' = "responded" /\ response' = NoSummary
    /\ UNCHANGED <<request, postText, postUrl, fetched, page, translated,
                   reply, urduSummary, blogs, summaries>>
    /\ UNCHANGED <<saveAttempt, sumVars, callVars, homeVars>>

\* The request to the translation service and the tests of its reply.
Translate ==
    /\ hpc = "translate"
    /\ translated' = Append(translated, summary)
    /\ \E r \in TranslationReplies :
           /\ reply' = r
           /\ CASE r.outcome = "throws" ->
                       /\ response' = TranslationFailed
                       /\ hpc' = "responded"
                       /\ UNCHANGED urduSummary
                [] r.outcome = "text" ->
                       /\ response' = TranslationUnavailable
                       /\ hpc' = "responded"
                       /\ UNCHANGED urduSummary
                [] r.outcome = "json" /\ (~r.ok \/ r.translatedText.type # "string") ->
                       /\ response' = TranslationUnavailable
                       /\ hpc' = "responded"
                       /\ UNCHANGED urduSummary
                [] OTHER ->
                       /\ urduSummary' = r.translatedText.chars
                       /\ hpc' = "save"
                       /\ UNCHANGED response
    /\ UNCHANGED <<request, postText, postUrl, fetched, page, summarized,
                   summary, blogs, summaries>>
    /\ UNCHANGED <<saveAttempt, sumVars, callVars, homeVars>>

\* Save to MongoDB: connect, the two inserts, close; what throws is logged
\* and the handler goes on.
Save ==
    /\ hpc = "save"
    /\ \E failure \in SaveFailures :
           /\ blogs' = IF failure \in {"connect", "blogs"} THEN blogs
                       ELSE Append(blogs, [url |-> postUrl, text |-> postText])
           /\ summaries' = IF failure \in {"connect", "blogs", "summaries"}
                           THEN summaries
                           ELSE Append(summaries,
                                       [url |-> postUrl, summary |-> summary,
                                        urduSummary |-> urduSummary])
           /\ saveAttempt' = [made |-> TRUE, thrown |-> failure]
    /\ hpc' = "saved"
    /\ UNCHANGED <<request, postText, postUrl, fetched, page, summarized,
                   summary, translated, reply, urduSummary, response>>
    /\ UNCHANGED <<sumVars, callVars, homeVars>>

\* Return immediately with all results.
Succeed ==
    /\ hpc = "saved"
    /\ response' = Success
    /\ hpc' = "responded"
    /\ UNCHANGED <<request, postText, postUrl, fetched, page, summarized,
                   summary, translated, reply, urduSummary, blogs, summaries>>
    /\ UNCHANGED <<saveAttempt, sumVars, callVars, homeVars>>

NextPost ==
    \/ ReadFails
    \/ TakeText
    \/ TakeUrl
    \/ RejectInput
    \/ ScrapeFails
    \/ Scrape
    \/ Summarize
    \/ Translate
    \/ Save
    \/ Succeed

SpecPost == InitPost /\ [][NextPost]_vars

(* ------------------------------- the page ------------------------------ *)

\* At most MaxRuns runs of handleSubmit are started.
MaxRuns == 2

\* At most MaxCloses timers of handleCloseSummary are pending together.
MaxCloses == 2

\* What ThreeScene submits: the mode and the trimmed, non-empty value.
Inputs == {[mode |-> "text", value |-> "t"], [mode |-> "url", value |-> "u"]}

\* const payload = {}; payload.url or payload.text = input.value
Payload(input) ==
    IF input.mode = "url" THEN [url |-> input.value] ELSE [text |-> input.value]

\* A response body that is a JSON object with these properties.
JsonObject(s, u, e) ==
    [json |-> "object", summary |-> s, urduSummary |-> u, error |-> e]

\* A response body that is no JSON.
NotJson == [json |-> "invalid", summary |-> Undefined,
            urduSummary |-> Undefined, error |-> Undefined]

\* The response bodies: no JSON, the JSON null, a result, a result with an
\* empty translation, an error, an error with an empty message, and {}.
Bodies ==
    { NotJson,
      [NotJson EXCEPT !.json = "null"],
      JsonObject(Str("S"), Str("U"), Undefined),
      JsonObject(Str("S"), Str(""), Undefined),
      JsonObject(Undefined, Undefined, Str("E")),
      JsonObject(Undefined, Undefined, Str("")),
      JsonObject(Undefined, Undefined, Undefined) }

\* The responses fetch resolves with: response.ok and the body.
Responses == {[kind |-> "response", ok |-> k, body |-> b] : k \in BOOLEAN, b \in Bodies}

\* fetch rejected.
Rejected == [kind |-> "throws", ok |-> FALSE, body |-> NotJson]

\* const showSummary = !!(summary && urduSummary && !loading); Home passes
\* no prop named loading, so loading is undefined.
ShowSummary == Truthy(homeSummary) /\ Truthy(homeUrduSummary)

\* What is thrown after a response that only a body that cannot be read
\* makes fail: the status is not looked at.
ThrownIgnoringStatus(resp) ==
    CASE resp.body.json = "invalid" -> Str("Unexpected token < in JSON at position 0")
      [] resp.body.json = "null"    -> Str("Cannot read properties of null")
      [] OTHER                      -> Undefined

\* The message of what lines 48-52 throw for a response, undefined when
\* they throw nothing: response.json() rejects on a body that is no JSON,
\* data.error and data.summary throw on null, and a response that is not
\* ok throws new Error(data.error || 'Failed to process text').
Thrown(resp) ==
    CASE resp.body.json = "invalid" -> Str("Unexpected token < in JSON at position 0")
      [] resp.body.json = "null"    -> Str("Cannot read properties of null")
      [] ~resp.ok                   -> IF Truthy(resp.body.error) THEN resp.body.error
                                       ELSE Str("Failed to process text")
      [] OTHER                      -> Undefined

\* handleClear that leaves loadingStage as it is.
ClearedStageKept(stage) == stage

\* setLoadingStage(0) of handleClear.
ClearedStage(stage) == 0

Running == {r \in RunIds : runs[r].pc # "idle"}

\* The state Home is left in by the run r that ends with this step.
Ending(r) ==
    [run          |-> r,
     overlapped   |-> runs[r].overlapped,
     response     |-> runs[r].response,
     loadingStage |-> loadingStage',
     summary      |-> homeSummary',
     urduSummary  |-> homeUrduSummary',
     error        |-> homeError']

\* The page is loaded; the summariser and the handler are not run here.
InitHome == NoSingleCall /\ NoCalls /\ NoRequest /\ NoHome

\* handleSubmit up to its await fetch(...): the form is submitted while the
\* input panel is not minimized.
Submit(r) ==
    /\ runs[r].pc = "idle"
    /\ submitted < MaxRuns
    /\ ~ShowSummary
    /\ loadingStage' = 1
    /\ homeError' = Str("")
    /\ homeSummary' = Str("")
    /\ homeUrduSummary' = Str("")
    /\ \E input \in Inputs :
           runs' = [k \in RunIds |->
                       IF k = r
                       THEN [NoRun EXCEPT !.pc = "fetch",
                                          !.payload = Payload(input),
                                          !.overlapped = (Running # {})]
                       ELSE IF k \in Running
                            THEN [runs[k] EXCEPT !.overlapped = TRUE]
                            ELSE runs[k]]
    /\ submitted' = submitted + 1
    /\ UNCHANGED <<ended, pendingCloses, cleared>>
    /\ UNCHANGED <<sumVars, callVars, postVars>>

\* fetch rejects: the catch sets the error and the stage 0.
FetchThrows(r) ==
    /\ runs[r].pc = "fetch"
    /\ homeError' = Str("Failed to fetch")
    /\ loadingStage' = 0
    /\ UNCHANGED <<homeSummary, homeUrduSummary>>
    /\ ended' = [Ending(r) EXCEPT !.response = Rejected]
    /\ runs' = [runs EXCEPT ![r] = NoRun]
    /\ UNCHANGED <<submitted, pendingCloses, cleared>>
    /\ UNCHANGED <<sumVars, callVars, postVars>>

\* fetch resolves: setLoadingStage(2), then await response.json().
FetchReturns(r) ==
    /\ runs[r].pc = "fetch"
    /\ \E resp \in Responses :
           runs' = [runs EXCEPT ![r].response = resp, ![r].pc = "json"]
    /\ loadingStage' = 2
    /\ UNCHANGED <<homeSummary, homeUrduSummary, homeError, submitted, ended,
                   pendingCloses, cleared>>
    /\ UNCHANGED <<sumVars, callVars, postVars>>

\* response.json() settles: the result is shown with the stage 3, or
\* what was thrown is caught, with the error set and the stage 0.
JsonReturns(r) ==
    /\ runs[r].pc = "json"
    /\ LET thrown == Thrown(runs[r].response)
       IN  IF thrown = Undefined
           THEN /\ homeSummary' = runs[r].response.body.summary
                /\ homeUrduSummary' = runs[r].response.body.urduSummary
                /\ loadingStage' = 3
                /\ UNCHANGED homeError
           ELSE /\ homeError' = thrown
                /\ loadingStage' = 0
                /\ UNCHANGED <<homeSummary, homeUrduSummary>>
    /\ ended' = Ending(r)
    /\ runs' = [runs EXCEPT ![r] = NoRun]
    /\ UNCHANGED <<submitted, pendingCloses, cleared>>
    /\ UNCHANGED <<sumVars, callVars, postVars>>

\* handleCloseSummary: the close button of the summary panel is clicked
\* and the timer of 400 ms is set.
CloseSummary ==
    /\ ShowSummary
    /\ pendingCloses < MaxCloses
    /\ pendingCloses' = pendingCloses + 1
    /\ UNCHANGED <<loadingStage, homeSummary, homeUrduSummary, homeError, runs,
                   submitted, ended, cleared>>
    /\ UNCHANGED <<sumVars, callVars, postVars>>

\* The timer fires and dispatches clearSummaries, which handleClear handles.
HandleClear ==
    /\ pendingCloses > 0
    /\ pendingCloses' = pendingCloses - 1
    /\ homeSummary' = Str("")
    /\ homeUrduSummary' = Str("")
    /\ loadingStage' = ClearedStage(loadingStage)
    /\ cleared' = [handled      |-> TRUE,
                   from         |-> loadingStage,
                   loadingStage |-> loadingStage',
                   summary      |-> homeSummary',
                   urduSummary  |-> homeUrduSummary']
    /\ UNCHANGED <<homeError, runs, submitted, ended>>
    /\ UNCHANGED <<sumVars, callVars, postVars>>

NextHome ==
    \/ \E r \in RunIds :
           \/ Submit(r)
           \/ FetchThrows(r)
           \/ FetchReturns(r)
           \/ JsonReturns(r)
    \/ CloseSummary
    \/ HandleClear

SpecHome == InitHome /\ [][NextHome]_vars

(* ------------------------------- claims -------------------------------- *)

Done == pc = "done"

Min(a, b) == IF a < b THEN a ELSE b

\* The elements of the sorted array that were selected: the sentences of top.
SelectedIdx == 1 .. Len(top)

\* The elements of the sorted array that were left out.
ExcludedIdx == (Len(top) + 1) .. Len(scored)

\* C1: the number of sentences joined into the result is exactly
\* min(topN, number of sentences of the document): never more than topN,
\* and all of them when the document has fewer than topN sentences.
C1_BoundedOutput ==
    Done => /\ Len(top) = Min(topN, Len(sentences))
            /\ Len(top) <= topN
            /\ (Len(sentences) < topN => Len(top) = Len(sentences))

\* A document of more sentences than topN has been cut to topN sentences.
C1_Witness ==
    Done /\ topN >= 1 /\ Len(sentences) > topN /\ Len(top) = topN

\* x > y of two scores: a comparison with NaN is false.
Higher(x, y) == ~IsNaN(x) /\ ~IsNaN(y) /\ x.n > y.n

\* x >= y of two scores: a comparison with NaN is false.
AtLeast(x, y) == ~IsNaN(x) /\ ~IsNaN(y) /\ x.n >= y.n

\* C2: the sentences selected are the highest-scoring ones: no sentence
\* left out of the summary has a strictly higher score than a sentence
\* included in it.
C2_HighestSelected ==
    Done => \A i \in SelectedIdx : \A j \in ExcludedIdx :
                ~Higher(scored[j].score, scored[i].score)

\* C3: in the output the selected sentences appear in non-increasing score
\* order: no sentence of the output has a strictly higher score than a
\* sentence before it (of two adjacent sentences, the first has a score
\* greater than or equal to the second's).
C3_DescendingOrder ==
    Done => \A i, j \in SelectedIdx :
                i < j => ~Higher(scored[j].score, scored[i].score)

Counted == pc \in {"score", "select", "done"}

Scored == pc \in {"select", "done"}

\* The sentence of the document that scored[i] was made from.
SentenceOf(i) == sentences[scored[i].pos]

\* The words of a sentence before the stopwords are removed, the empty
\* pieces of the split left out.
WordsOf(s) ==
    LET pieces == SplitWhitespace(StripNonLetters(ToLowerCase(s)))
    IN  {pieces[k] : k \in DOMAIN pieces} \ {<<>>}

OnlyStopwords(s) == WordsOf(s) # {} /\ WordsOf(s) \subseteq StopWords

HasScoringToken(s) == WordsOf(s) \ StopWords # {}

\* C5: a sentence consisting solely of stopwords gets score 0 and is ranked
\* no higher than any sentence that contains a non-stopword token.
C5_StopwordSentenceScoresZero ==
    Scored => \A i \in DOMAIN scored :
                OnlyStopwords(SentenceOf(i))
                => /\ scored[i].score = Num(0)
                   /\ \A j \in DOMAIN scored :
                         HasScoringToken(SentenceOf(j))
                         => ~Higher(scored[i].score, scored[j].score)

\* C6: zero-length tokens are dropped at normalization time: the empty
\* string is never a key of the frequency table and never adds to a
\* sentence's score.  Stated for the documents that hold a scoring token.
C6_NoEmptyToken ==
    HasScoringToken(text) =>
        /\ Counted => <<>> \notin DOMAIN freq
        /\ Scored => \A i \in DOMAIN scored :
                        scored[i].score =
                            Reduce(SelectSeq(Tokens(SentenceOf(i)), LAMBDA w : w # <<>>),
                                   1, freq, Num(0))

\* The number of occurrences of w in words.
Occurrences(words, w) == Cardinality({k \in DOMAIN words : words[k] = w})

\* C7: every key of the frequency table maps to a strictly positive
\* integer, the number of occurrences of the token in the normalized,
\* stopword-filtered document; a token that does not occur is looked up
\* as 0.
C7_FrequencyCounts ==
    Counted =>
        /\ \A k \in DOMAIN freq :
              /\ freq[k].t = "number"
              /\ freq[k].n > 0
              /\ freq[k].n = Occurrences(Tokens(text), k)
        /\ \A i \in DOMAIN sentences :
              \A k \in DOMAIN Tokens(sentences[i]) :
                 LET w == Tokens(sentences[i])[k]
                 IN  Occurrences(Tokens(text), w) = 0
                     => OrZero(Get(freq, w)) = Num(0)

\* The count the table holds for w, 0 for a token it does not hold.
CountOf(w) == IF w \in DOMAIN freq /\ freq[w].t = "number" THEN freq[w].n ELSE 0

\* The sum, over the tokens w of the set S, of the occurrences of w in toks
\* times the count the table holds for w.
RECURSIVE WeightedSum(_, _)
WeightedSum(S, toks) ==
    IF S = {} THEN 0
    ELSE LET w == CHOOSE y \in S : TRUE
         IN  Occurrences(toks, w) * CountOf(w) + WeightedSum(S \ {w}, toks)

\* C8: the score of every sentence is a non-negative number, the sum over
\* the sentence's non-stopword tokens, counted with multiplicity, of the
\* token's count in the frequency table (0 for a token the table lacks).
C8_ScoreIsSum ==
    Scored => \A i \in DOMAIN scored :
                LET toks == Tokens(SentenceOf(i))
                    distinct == {toks[k] : k \in DOMAIN toks}
                IN  /\ scored[i].score.t = "number"
                    /\ scored[i].score.n >= 0
                    /\ scored[i].score.n = WeightedSum(distinct, toks)

NoTerminator(d) == \A k \in DOMAIN d : d[k] \notin Terminators

\* r occurs in d at a: d[a .. a + Len(r) - 1] = r.
OccursAt(r, d, a) ==
    /\ a >= 1
    /\ a + Len(r) - 1 <= Len(d)
    /\ \A k \in DOMAIN r : d[a + k - 1] = r[k]

\* r is a contiguous substring of d.
IsSubstring(r, d) == \E a \in 1 .. (Len(d) + 1) : OccursAt(r, d, a)

\* r is d without the whitespace that surrounds it.
IsTrimOf(r, d) ==
    /\ r # <<>> => r[1] \notin Whitespace /\ r[Len(r)] \notin Whitespace
    /\ \E a \in 1 .. (Len(d) + 1) :
          /\ OccursAt(r, d, a)
          /\ \A k \in DOMAIN d :
                (k < a \/ k > a + Len(r) - 1) => d[k] \in Whitespace

\* C9: fallback segmentation: a document that contains none of '.', '!',
\* '?' or newline segments into exactly one sentence, the whole document,
\* and for every topN >= 1 the result is that document trimmed of
\* surrounding whitespace, verbatim.
C9_FallbackSegmentation ==
    NoTerminator(text) =>
        /\ pc # "split" => sentences = <<text>>
        /\ (Done /\ topN >= 1) => IsTrimOf(result, text)

\* A document without a terminator was returned with its surrounding
\* whitespace trimmed away.
C9_Witness ==
    /\ Done
    /\ NoTerminator(text)
    /\ topN >= 1
    /\ result # <<>>
    /\ result # text

\* The place in the result where top[i] starts, less one.
RECURSIVE Offset(_)
Offset(i) == IF i = 1 THEN 0 ELSE Offset(i - 1) + Len(top[i - 1]) + 1

\* C10: the summary is strictly extractive: every sentence text joined
\* into the result is a contiguous substring of the document (a segment
\* with its surrounding whitespace trimmed), and the result is exactly
\* those texts joined by one space each.
C10_Extractive ==
    Done =>
        /\ \A i \in DOMAIN top :
              /\ IsSubstring(top[i], text)
              /\ \E k \in DOMAIN sentences :
                    IsSubstring(sentences[k], text) /\ IsTrimOf(top[i], sentences[k])
        /\ \A i \in DOMAIN top :
              /\ OccursAt(top[i], result, Offset(i) + 1)
              /\ i < Len(top) => result[Offset(i) + Len(top[i]) + 1] = " "
        /\ Len(result) = IF top = <<>> THEN 0
                         ELSE Offset(Len(top)) + Len(top[Len(top)])

\* Two or more sentences were joined, one of them trimmed, one of them
\* holding a capital, in another order than the document's.
C10_Witness ==
    /\ Done
    /\ Len(top) >= 2
    /\ \E i \in DOMAIN top : top[i] # SentenceOf(i)
    /\ \E i \in DOMAIN top : top[i] # ToLowerCase(top[i])
    /\ \E i \in DOMAIN top : scored[i].pos # i


\* C12: summarizeText called with the empty document fails with an error:
\* the call never completes with a summary returned.
C12_EmptyDocumentFails == text = <<>> => ~Done

\* The third sentence of Scenario A as the summary holds it.
ScenarioAThird == Trim(SubSeq(ScenarioA, 36, 87))

\* The first sentence of Scenario A.
ScenarioAFirst == SubSeq(ScenarioA, 1, 15)

\* C13: Scenario A.  Called with the document of Scenario A and topN = 2,
\* summarizeText gives the third sentence a score higher than that of
\* every other sentence and puts it first in the summary it returns.
C13_ScenarioA ==
    (text = ScenarioA /\ topN = 2) =>
        /\ pc # "split" => Len(sentences) = 3
        /\ Scored =>
               \A i, j \in DOMAIN scored :
                   (scored[i].pos = 3 /\ scored[j].pos # 3) =>
                       Higher(scored[i].score, scored[j].score)
        /\ Done =>
               /\ scored[1].pos = 3
               /\ top[1] = ScenarioAThird
               /\ OccursAt(ScenarioAThird, result, 1)

C13_Witness ==
    /\ Done
    /\ text = ScenarioA
    /\ topN = 2
    /\ scored[1].score = Num(10)
    /\ result = ScenarioAThird \o <<" ">> \o ScenarioAFirst


\* C11: determinism.  Any two calls of summarizeText that were given the
\* same document and the same topN returned the same string, whatever
\* calls were made before, between or during them.
C11_Determinism ==
    \A i, j \in DOMAIN returned :
        (returned[i].text = returned[j].text /\ returned[i].topN = returned[j].topN)
            => returned[i].result = returned[j].result

\* The same call made twice, with a call on another document in between.
C11_Witness ==
    /\ Len(returned) = 3
    /\ \A i \in DOMAIN returned : ~returned[i].overlapped
    /\ returned[1].text = returned[3].text
    /\ returned[1].topN = returned[3].topN
    /\ returned[2].text # returned[1].text
    /\ Len(Segment(returned[1].text)) > returned[1].topN
    /\ returned[3].result # <<>>

\* The callers whose call has created its frequency table.
Counting == {c \in Callers : invocations[c].pc \in {"score", "select"}}

\* C19: no state is shared between invocations.  Each call under way has a
\* frequency table of its own, which holds the counts of its own document
\* only, and every call, overlapped by another or not, returned what the
\* call returns when it runs alone.
C19_NoSharedState ==
    /\ \A c, d \in Counting :
           c # d => invocations[c].freq # invocations[d].freq
    /\ \A c \in Counting :
           heap[invocations[c].freq] = BuildFrequencies(invocations[c].text)
    /\ \A i \in DOMAIN returned :
           returned[i].result = SummarizeText(returned[i].text, returned[i].topN)

\* Two calls on different documents that overlapped and returned.
C19_Witness ==
    \E i, j \in DOMAIN returned :
        /\ i < j
        /\ returned[i].overlapped
        /\ returned[j].overlapped
        /\ returned[i].text # returned[j].text
        /\ returned[i].result # <<>>
        /\ returned[j].result # <<>>
        /\ Cardinality(DOMAIN heap) >= 2


(* ------------------------ claims on the POST handler ------------------- *)

Responded == hpc = "responded"

\* The response is an error object.
IsError == Responded /\ "error" \in DOMAIN response.body

\* The request carries a raw text of fewer than 100 characters.
RawTextShort ==
    /\ request.json = "object"
    /\ request.text.type = "string"
    /\ Len(request.text.chars) < MinTextLength

\* The request carries a URL: a string that is not blank.
UrlGiven ==
    /\ request.url.type = "string"
    /\ \E k \in DOMAIN request.url.chars : request.url.chars[k] \notin Whitespace

\* C14 as stated: a request whose raw text is shorter than 100 characters
\* is answered with status 400 and summarizeText is never called for it,
\* whatever else the body holds.
C14_ShortTextRejected ==
    RawTextShort =>
        /\ summarized = <<>>
        /\ Responded => response.status = 400

\* C14, amended: a request whose raw text is shorter than 100 characters
\* and which carries no URL (none, no string, or a blank one) is answered
\* with the status 400 error, and neither summarizeText nor the scraper is
\* called for it.
C14_ShortTextRejectedWithoutUrl ==
    (RawTextShort /\ ~UrlGiven) =>
        /\ summarized = <<>>
        /\ fetched = <<>>
        /\ hpc \in {"receive", "responded"}
        /\ Responded => (response.status = 400 /\ DOMAIN response.body = {"error"})

C14_Witness ==
    /\ RawTextShort
    /\ Len(request.text.chars) = MinTextLength - 1
    /\ ~UrlGiven
    /\ Responded
    /\ response.status = 400

\* C15: every text summarizeText is called with has at least 100
\* characters, whether it came from the body or from the scraper.
C15_SummarizedTextLongEnough ==
    \A i \in DOMAIN summarized : Len(summarized[i]) >= MinTextLength

\* summarizeText called with a scraped text made of two paragraphs.
C15_Witness ==
    /\ summarized # <<>>
    /\ fetched # <<>>
    /\ page.loaded
    /\ \E k \in DOMAIN page.paragraphs : Len(page.paragraphs[k]) < MinTextLength
    /\ summarized[1] = postText
    /\ Len(postText) >= MinTextLength

\* C16: when the summary produced is shorter than 50 characters (or
\* empty), the handler has answered with an error and has called neither
\* the translation service nor the database.
C16_ShortSummaryStops ==
    (summarized # <<>> /\ Len(summary) < MinSummaryLength) =>
        /\ IsError
        /\ response.status >= 400
        /\ translated = <<>>
        /\ reply.outcome = "none"
        /\ blogs = <<>>
        /\ summaries = <<>>

C16_Witness ==
    /\ summarized # <<>>
    /\ summary # <<>>
    /\ Len(summary) < MinSummaryLength
    /\ Len(summarized[1]) >= MinTextLength
    /\ IsError

\* The body was read as an object that holds neither a text of 100
\* characters after trimming nor a URL, or the page scraped gave fewer
\* than 100 characters.
BadInput ==
    \/ /\ request.json = "object"
       /\ ~(request.text.type = "string"
            /\ Len(Trim(request.text.chars)) >= MinTextLength)
       /\ ~UrlGiven
    \/ page.loaded /\ Len(postText) < MinTextLength

\* The translation service was called and did not give a translation.
TranslationFailure ==
    /\ translated # <<>>
    /\ ~(reply.outcome = "json" /\ reply.ok /\ reply.translatedText.type = "string")

\* C17: an error response has status 400, 502 or 500: 400 exactly when
\* the input was bad, 502 or 500 after a translation failure, 500 for
\* every other error.
C17_ErrorStatuses ==
    IsError =>
        /\ response.status \in {400, 502, 500}
        /\ response.status = 400 <=> BadInput
        /\ response.status = 502 => TranslationFailure
        /\ TranslationFailure => response.status \in {502, 500}
        /\ (~BadInput /\ ~TranslationFailure) => response.status = 500

\* An error of each kind has been seen by the time every request of the
\* model is answered; this one is the summary that is too short.
C17_Witness ==
    /\ IsError
    /\ ~BadInput
    /\ ~TranslationFailure
    /\ summarized # <<>>
    /\ response.status = 500

\* C18: no partial results.  A response is the success object with
\* summary, urduSummary, originalLength and summaryLength, or an error
\* object with the error message and nothing else.
C18_NoPartialResults ==
    /\ ~Responded => response.status = 0
    /\ Responded =>
           \/ /\ response.status = 200
              /\ DOMAIN response.body =
                     {"summary", "urduSummary", "originalLength", "summaryLength"}
              /\ response.body.summary = summary
              /\ response.body.urduSummary = urduSummary
              /\ response.body.originalLength = Len(postText)
              /\ response.body.summaryLength = Len(summary)
           \/ /\ response.status # 200
              /\ DOMAIN response.body = {"error"}

\* An error answered after the summary was made and the translation tried.
C18_Witness ==
    /\ IsError
    /\ summary # <<>>
    /\ translated # <<>>
    /\ reply.outcome = "json"
    /\ response.status = 502

\* C20 as stated: the scraper keeps a paragraph exactly when it has at
\* least 40 characters and returns the kept ones, in order, joined by
\* single spaces.
C20_KeepsFortyOrMore ==
    page.loaded =>
        postText = Join(SelectSeq(page.paragraphs,
                                  LAMBDA t : Len(t) >= ParagraphLength),
                        <<" ">>)

\* The paragraphs kept: those whose text has more than 40 characters once
\* trimmed.
KeptIdx ==
    {k \in DOMAIN page.paragraphs : Len(Trim(page.paragraphs[k])) > ParagraphLength}

\* C20, amended: the scraper keeps a paragraph exactly when its text,
\* trimmed, has more than 40 characters, and returns the kept paragraphs,
\* untrimmed and in document order, joined by single spaces.
C20_KeepsMoreThanFortyTrimmed ==
    page.loaded =>
        /\ postText = Join(SelectSeq(page.paragraphs,
                                     LAMBDA t : Len(Trim(t)) > ParagraphLength),
                           <<" ">>)
        /\ \A k \in DOMAIN page.paragraphs :
               k \in KeptIdx <=> Len(Trim(page.paragraphs[k])) >= ParagraphLength + 1
        /\ \A k \in KeptIdx : IsSubstring(page.paragraphs[k], postText)
        /\ KeptIdx = {} <=> postText = <<>>

\* A page with a paragraph of 40 characters, dropped, between white space
\* or not, and a paragraph kept with its white space.
C20_Witness ==
    /\ page.loaded
    /\ \E k \in DOMAIN page.paragraphs :
           Len(Trim(page.paragraphs[k])) = ParagraphLength
    /\ \E k \in KeptIdx : page.paragraphs[k][1] = " "
    /\ postText # <<>>
    /\ postText[1] = " "

(* ------------------------ claims on segmentation ----------------------- *)

\* The characters that end a sentence: '.', '!', '?' and the newline.
SentenceEnds == {".", "!", "?", NL}

Split == pc # "split"

HasSentenceEnd(d) == \E k \in DOMAIN d : d[k] \in SentenceEnds

\* s is a run of other characters followed by a run of sentence ends, and
\* holds no sentence end before that last run.
RunThenEnds(s) ==
    \E e \in 0 .. (Len(s) - 1) :
        /\ \A k \in 1 .. e : s[k] \notin SentenceEnds
        /\ \A k \in (e + 1) .. Len(s) : s[k] \in SentenceEnds

\* C21 as stated: when the document holds a terminator, every sentence is
\* a run of non-terminators followed by the run of terminators that ends
\* it, and holds no terminator before that last run.
C21_TerminatorRetained ==
    (Split /\ HasSentenceEnd(text)) =>
        \A k \in DOMAIN sentences : RunThenEnds(sentences[k])

\* The places of d where a run of characters that end no sentence starts.
RunStarts(d) ==
    {a \in DOMAIN d : d[a] \notin SentenceEnds
                      /\ (a > 1 => d[a - 1] \in SentenceEnds)}

\* The places of d where a run of sentence ends finishes.
EndsFinish(d) ==
    {f \in DOMAIN d : d[f] \in SentenceEnds
                      /\ (f < Len(d) => d[f + 1] \notin SentenceEnds)}

\* The units of d: the pairs <<a, f>> such that d[a .. f] is a maximal,
\* non-empty run of characters that end no sentence followed by the whole
\* run of sentence ends after it: a run starts at a, and f is the first
\* place after a where a run of sentence ends finishes.
Units(d) ==
    {u \in RunStarts(d) \X EndsFinish(d) :
        /\ u[1] < u[2]
        /\ \A g \in EndsFinish(d) : g > u[1] => u[2] <= g}

\* The units of d from left to right.
UnitsInOrder(d) ==
    LET U == Units(d)
    IN  [j \in 1 .. Cardinality(U) |->
            CHOOSE u \in U : Cardinality({v \in U : v[1] < u[1]}) = j - 1]

\* C21, amended: when the document holds a terminator right after another
\* character, the sentences are exactly the document's units from left to
\* right, each a maximal non-empty run of non-terminators with the whole
\* run of terminators that ends it; when it holds terminators but none
\* after another character, the whole document is the one sentence.
C21_UnitsRetained ==
    (Split /\ HasSentenceEnd(text)) =>
        LET units == UnitsInOrder(text)
        IN  IF units = <<>> THEN sentences = <<text>>
            ELSE /\ Len(sentences) = Len(units)
                 /\ \A k \in DOMAIN sentences :
                       /\ sentences[k] = SubSeq(text, units[k][1], units[k][2])
                       /\ RunThenEnds(sentences[k])
                       /\ sentences[k][1] \notin SentenceEnds

\* Two sentences, the first ended by a run of two terminators, the second
\* of them a newline.
C21_Witness ==
    /\ Split
    /\ Len(sentences) = 2
    /\ \E k \in 1 .. (Len(sentences[1]) - 1) :
          /\ sentences[1][k] \in SentenceEnds
          /\ sentences[1][k + 1] = NL

\* C22: segmentation yields at least one sentence for every non-empty
\* document, so that scoring and ranking never get an empty sentence list.
C22_AtLeastOneSentence ==
    text # <<>> =>
        /\ Split => Len(sentences) >= 1
        /\ Scored => Len(scored) >= 1
        /\ (Done /\ topN >= 1) => Len(top) >= 1

\* A document that holds terminators and no sentence the pattern matches
\* has been ranked as the one sentence it is.
C22_Witness ==
    /\ Done
    /\ topN >= 1
    /\ HasSentenceEnd(text)
    /\ Units(text) = {}
    /\ sentences = <<text>>
    /\ Len(top) = 1

\* The place of the last sentence end of d.
LastEnd(d) ==
    LET ends == {k \in DOMAIN d : d[k] \in SentenceEnds}
    IN  CHOOSE k \in ends : \A j \in ends : j <= k

\* What follows the last sentence end of d.
UnterminatedTail(d) == SubSeq(d, LastEnd(d) + 1, Len(d))

\* The number of sentence ends d starts with.
LeadingEnds(d) == RunEnd(d, 1, SentenceEnds)

\* The document has a terminated sentence.
HasTerminatedSentence == Units(text) # {}

\* The tokens of the document the tail has a part in: the pieces of the
\* normalized document from the one on that the tail's first character
\* falls into or comes before (the deletion of the punctuation joins it to
\* the sentence's last word when no white space stands between them), the
\* stopwords removed.
TailTokens(d) ==
    LET whole  == StripNonLetters(ToLowerCase(d))
        before == Len(StripNonLetters(ToLowerCase(SubSeq(d, 1, LastEnd(d)))))
        starts == SeparatorStarts(whole)
        first  == 1 + Cardinality({j \in DOMAIN starts : starts[j] <= before + 1})
        pieces == SplitWhitespace(whole)
    IN  IF before = Len(whole) THEN <<>>
        ELSE removeStopwords(SubSeq(pieces, first, Len(pieces)))

\* What follows the last terminator belongs to no sentence: the sentences
\* make up the document from its first unit to its last terminator and no
\* further, and what is scored and what is selected are these sentences,
\* trimmed.
TailInNoSentence ==
    /\ Split =>
          Join(sentences, <<>>) =
              SubSeq(text, LeadingEnds(text) + 1, LastEnd(text))
    /\ Scored =>
          /\ Len(scored) = Cardinality(Units(text))
          /\ \A i \in DOMAIN scored :
                /\ scored[i].sentence = Trim(sentences[scored[i].pos])
                /\ scored[i].score = SentenceScore(sentences[scored[i].pos], freq)
    /\ Done =>
          /\ \A i \in DOMAIN top : top[i] = Trim(sentences[scored[i].pos])
          /\ Len(result) <= LastEnd(text) + Len(top)

\* C23 as stated: when the document has a terminated sentence, what
\* follows the last terminator belongs to no sentence, is never scored and
\* never in the summary, and yet the tokens of the tail (the words the
\* tail gives when normalized by itself) are keys of the frequency table.
C23_TailDropped ==
    HasTerminatedSentence =>
        /\ TailInNoSentence
        /\ Counted =>
              \A k \in DOMAIN Tokens(UnterminatedTail(text)) :
                  LET w == Tokens(UnterminatedTail(text))[k]
                  IN  w # <<>> => w \in DOMAIN freq

\* C23, amended: the same, the tokens of the tail being the tokens of the
\* normalized document that the tail has a part in: its first word is one
\* token with the last word of the last sentence when no white space
\* stands between them.
C23_TailDroppedTokensJoined ==
    HasTerminatedSentence =>
        /\ TailInNoSentence
        /\ Counted =>
              \A k \in DOMAIN TailTokens(text) : TailTokens(text)[k] \in DOMAIN freq

\* A tail with a word that no sentence holds: the word is in the table,
\* every sentence was selected, and the result ends before the tail.
C23_Witness ==
    /\ Done
    /\ HasTerminatedSentence
    /\ topN >= Len(sentences)
    /\ \E k \in DOMAIN TailTokens(text) :
          /\ TailTokens(text)[k] # <<>>
          /\ TailTokens(text)[k] \in DOMAIN freq
          /\ \A j \in DOMAIN sentences :
                \A m \in DOMAIN Tokens(sentences[j]) :
                    Tokens(sentences[j])[m] # TailTokens(text)[k]
    /\ result # <<>>
    /\ Len(result) < Len(Trim(text))

(* ------------------- claims on the frequency table --------------------- *)

\* The first n sentences of the document, trimmed, in document order.
FirstSentences(n) == [i \in 1 .. Min(n, Len(sentences)) |-> Trim(sentences[i])]

\* C24: when the frequency table is empty, every sentence scores 0 and
\* summarizeText returns the first topN sentences of the document, in
\* their document order.
C24_EmptyTableKeepsOrder ==
    (Counted /\ DOMAIN freq = {}) =>
        /\ Scored => \A i \in DOMAIN scored : scored[i].score = Num(0)
        /\ Done =>
              /\ \A i \in DOMAIN scored : scored[i].pos = i
              /\ top = FirstSentences(topN)
              /\ result = Join(FirstSentences(topN), <<" ">>)

\* A document of three different sentences of stopwords, one of them with
\* a token the table lacks, cut to its first two.
C24_Witness ==
    /\ Done
    /\ DOMAIN freq = {}
    /\ Len(sentences) = 3
    /\ topN = 2
    /\ top[1] # top[2]
    /\ \E i \in DOMAIN sentences : Tokens(sentences[i]) # <<>>

\* The tokens of the sentences, as scoring looks them up.
LookedUp ==
    UNION {{Tokens(sentences[i])[k] : k \in DOMAIN Tokens(sentences[i])} :
              i \in DOMAIN sentences}

\* C25: the frequency table is built once, by the counting step, and
\* scoring, sorting and selection leave it as it was built: after them it
\* holds the keys and the counts of the document's tokens, and a token
\* that was looked up and is no token of the document is no key of it.
C25_TableNotMutated ==
    /\ ~Counted => freq = EmptyObject
    /\ Counted =>
          /\ freq = CountWords(Tokens(text), 1, EmptyObject)
          /\ DOMAIN freq = {Tokens(text)[k] : k \in DOMAIN Tokens(text)}
    /\ Scored =>
          \A w \in LookedUp :
              Occurrences(Tokens(text), w) = 0 => w \notin DOMAIN freq

\* A sentence's token that the table lacks has been looked up ("b" of
\* "b.b", whose table holds "bb"), and the call has returned.
C25_Witness ==
    /\ Done
    /\ DOMAIN freq # {}
    /\ \E w \in LookedUp : w # <<>> /\ w \notin DOMAIN freq /\ w \notin InheritedKeys

(* --------------------- claims on the handler's steps ------------------- *)

\* The translation service returned a translatedText that is a string, in
\* a reply that is JSON and ok.
ValidTranslation ==
    /\ reply.outcome = "json"
    /\ reply.ok
    /\ reply.translatedText.type = "string"

\* C26: the steps of the handler are ordered and none is repeated:
\* summarizeText is called at most once; the translation service at most
\* once, and only with a summary of at least 50 characters that
\* summarizeText returned; each insert is made at most once, the one into
\* summaries after the one into blogs, and the save step is reached only
\* after a valid translatedText came back; the success response is sent
\* only after the save step has finished.
C26_StepsOrdered ==
    /\ Len(summarized) <= 1
    /\ Len(translated) <= 1
    /\ Len(blogs) <= 1
    /\ Len(summaries) <= 1
    /\ translated # <<>> =>
          /\ summarized # <<>>
          /\ translated = <<summary>>
          /\ Len(summary) >= MinSummaryLength
    /\ (saveAttempt.made \/ blogs # <<>> \/ summaries # <<>>) =>
          /\ translated # <<>>
          /\ ValidTranslation
          /\ urduSummary = reply.translatedText.chars
    /\ summaries # <<>> => blogs # <<>>
    /\ (blogs # <<>> \/ summaries # <<>>) => saveAttempt.made
    /\ response.status = 200 => (Responded /\ saveAttempt.made)

\* A request with a URL went through every step: scraped, summarised,
\* translated, saved and answered.
C26_Witness ==
    /\ Responded
    /\ response.status = 200
    /\ Len(fetched) = 1
    /\ Len(summarized) = 1
    /\ Len(translated) = 1
    /\ Len(blogs) = 1
    /\ Len(summaries) = 1
    /\ urduSummary # <<>>

\* C27: a failure of the persistence step never changes the outcome of
\* the request: whatever the save step caught, once it was run the
\* response is the success response, with the summary, the translation,
\* the length of the text and the length of the summary.
C27_SaveFailureIgnored ==
    (Responded /\ saveAttempt.made) =>
        /\ response.status = 200
        /\ DOMAIN response.body =
               {"summary", "urduSummary", "originalLength", "summaryLength"}
        /\ response.body.summary = summary
        /\ response.body.urduSummary = urduSummary
        /\ response.body.originalLength = Len(postText)
        /\ response.body.summaryLength = Len(summary)
        /\ summarized = <<postText>>

\* connect threw, nothing was inserted, and the request succeeded.
C27_Witness ==
    /\ Responded
    /\ saveAttempt.made
    /\ saveAttempt.thrown = "connect"
    /\ blogs = <<>>
    /\ summaries = <<>>
    /\ response.status = 200
    /\ response.body.summaryLength >= MinSummaryLength

\* The request's text has at least 100 characters after trimming.
TextLongEnough ==
    /\ request.json = "object"
    /\ request.text.type = "string"
    /\ Len(Trim(request.text.chars)) >= MinTextLength

\* C28: text takes precedence over URL.  When the request's text has at
\* least 100 characters after trimming, no URL is fetched, the text
\* summarised is that text, and the records saved hold an empty url; a URL
\* is fetched only when the text is missing or too short, and it is the
\* request's URL, trimmed.
C28_TextPrecedence ==
    /\ TextLongEnough =>
          /\ fetched = <<>>
          /\ ~page.loaded
          /\ postUrl = <<>>
          /\ \A i \in DOMAIN summarized : summarized[i] = Trim(request.text.chars)
          /\ \A i \in DOMAIN blogs :
                blogs[i].url = <<>> /\ blogs[i].text = Trim(request.text.chars)
          /\ \A i \in DOMAIN summaries : summaries[i].url = <<>>
    /\ fetched # <<>> =>
          /\ ~TextLongEnough
          /\ UrlGiven
          /\ fetched = <<Trim(request.url.chars)>>

\* A request with a long text and a URL was saved with an empty url.
C28_Witness ==
    /\ TextLongEnough
    /\ UrlGiven
    /\ Responded
    /\ response.status = 200
    /\ Len(blogs) = 1
    /\ blogs[1].url = <<>>
    /\ summaries # <<>>

(* --------------------------- claims on the page ------------------------ *)

\* The last run to end was overlapped by no other run.
EndedAlone == ended.run # 0 /\ ~ended.overlapped

\* The run ended with the result shown.
EndedComplete ==
    /\ ended.loadingStage = 3
    /\ ended.error = Str("")
    /\ ended.response.kind = "response"
    /\ ended.summary = ended.response.body.summary
    /\ ended.urduSummary = ended.response.body.urduSummary

\* The run ended with the error shown.
EndedFailed ==
    /\ ended.loadingStage = 0
    /\ ended.error.t = "string"
    /\ ended.error.s # ""
    /\ ended.summary = Str("")
    /\ ended.urduSummary = Str("")

\* C29: a run of handleSubmit that overlaps no other run ends in exactly
\* one of two states: stage 3, no error, summary and urduSummary those of
\* the response; or stage 0, an error, summary and urduSummary empty.  It
\* does not end in stage 3 when fetch failed or the response was not ok.
C29_SubmitEndsCompleteOrFailed ==
    EndedAlone =>
        /\ EndedComplete \/ EndedFailed
        /\ ~(EndedComplete /\ EndedFailed)
        /\ (ended.response.kind = "throws" \/ ~ended.response.ok)
               => (ended.loadingStage # 3 /\ EndedFailed)

\* A run that failed on a response that was not ok, after an earlier run
\* had completed and its panel was closed.
C29_Witness ==
    /\ EndedAlone
    /\ submitted >= 2
    /\ cleared.handled
    /\ ended.response.kind = "response"
    /\ ~ended.response.ok
    /\ ended.response.body.json = "object"
    /\ ended.error = Str("E")
    /\ loadingStage = 0

\* C30: when a clearSummaries event has been handled, summary and
\* urduSummary are empty and loadingStage is 0, whatever the stage was
\* when the event arrived.
C30_ClearResets ==
    cleared.handled =>
        /\ cleared.summary = Str("")
        /\ cleared.urduSummary = Str("")
        /\ cleared.loadingStage = 0
        /\ cleared.from \in 0 .. 3

\* The event arrived while a later submission was under way (the panel
\* was closed twice) and set the stage back from 1 or 2.
C30_Witness ==
    /\ cleared.handled
    /\ cleared.from \in {1, 2}
    /\ Running # {}
    /\ loadingStage = 0
    /\ homeSummary = Str("")

=============================================================================
